---- MODULE Spec2Model ----
(***************************************************************************)
(* Model of pydriller/git_gp.py: the GitPython repository adapter.         *)
(*                                                                         *)
(* The repository on disk (HEAD, branches, working tree, per-repository    *)
(* config store) is shared by all adapters opened on its path.  Each       *)
(* adapter owns two lazily opened handles (_git, _repo) and a              *)
(* Configuration object holding main_branch.  The adapter is synchronous   *)
(* and single threaded, so every public method is one atomic action.       *)
(***************************************************************************)
EXTENDS Integers, Sequences, FiniteSets, TLC

\* ------------------------------------------------------------------------
\* Bounds and fixed data of the modelled repository
\* ------------------------------------------------------------------------
NumAdapters == 2
Adapters == 1..NumAdapters

None == "<None>"            \* Python None
Absent == "<absent>"        \* a branch name with no ref
Detached == "<detached>"    \* HEAD is not a symbolic ref
PD == "_PD"                 \* the reserved scratch branch name

Commits == {"c1", "c2"}                 \* c1 is the parent of c2
Hashes == Commits \cup {"bad"}          \* "bad" does not resolve
UserBranches == {"main", "dev"}
Branches == UserBranches \cup {PD}
Paths == {"never/existed.txt", "untracked.txt", "f.txt", "./f.txt", "g.txt"}
NL == "\n"

VARIABLES
    head,        \* branch HEAD is attached to, or Detached
    heads,       \* branch name -> commit, or Absent
    headCommit,  \* commit HEAD resolves to (the working tree's snapshot)
    dirty,       \* working tree has uncommitted local changes
    config,      \* per-repository config store: blame.markUnblamableLines set
    _git,        \* adapter -> low-level command handle opened
    _repo,       \* adapter -> repository object handle opened
    _conf,       \* adapter -> value of configuration option main_branch
    writes,      \* adapter -> number of set_value("main_branch", ..) calls
    last,        \* record of the most recent call and what it observed
    prev         \* the checkout() or reset() call right before it, if any

vars == <<head, heads, headCommit, dirty, config, _git, _repo, _conf, writes, last, prev>>

\* ------------------------------------------------------------------------
\* The underlying version-control toolkit, as the adapter calls it
\* ------------------------------------------------------------------------

\* The state one call works on: the repository, the calling adapter's fields,
\* the exception in flight (err) and what the call observed on its way.
Ctx(a) ==
    [head |-> head, heads |-> heads, headCommit |-> headCommit,
     dirty |-> dirty, config |-> config,
     git |-> _git[a], repo |-> _repo[a], conf |-> _conf[a], writes |-> writes[a],
     err |-> "ok",
     mainArgs |-> << >>,      \* main_branch values passed to 'checkout -f'
     delReached |-> FALSE,    \* _delete_tmp_branch was entered
     delPdBefore |-> FALSE,   \* _PD existed when it was entered
     delErr |-> "ok",         \* exception that escaped _delete_tmp_branch
     delChanged |-> FALSE,    \* it changed HEAD or a branch
     createReached |-> FALSE, \* 'checkout -f <hash> -b _PD' was issued
     createPdExists |-> FALSE,\* _PD existed at that moment
     ret |-> << >>]

\* git checkout -f <branch>.  GitPython drops None arguments, so a None
\* branch runs plain 'git checkout -f', which only discards local changes.
\* An empty or unknown name makes git fail (GitCommandError).
GitCheckoutForce(s, branch) ==
    IF branch = None
    THEN [s EXCEPT !.dirty = FALSE]
    ELSE IF branch \in Branches /\ s.heads[branch] # Absent
    THEN [s EXCEPT !.head = branch, !.headCommit = s.heads[branch], !.dirty = FALSE]
    ELSE [s EXCEPT !.err = "GitCommandError"]

\* git checkout -f <hash> -b <name>: fails when the branch already exists or
\* the hash does not resolve.
GitCheckoutNewBranch(s, hash, name) ==
    IF s.heads[name] # Absent \/ hash \notin Commits
    THEN [s EXCEPT !.err = "GitCommandError"]
    ELSE [s EXCEPT !.head = name, !.heads[name] = hash,
                   !.headCommit = hash, !.dirty = FALSE]

\* repo.delete_head(name, force=True), i.e. git branch -D <name>: fails when
\* the branch does not exist or is the one checked out.
DeleteHead(s, name) ==
    IF s.heads[name] = Absent \/ s.head = name
    THEN [s EXCEPT !.err = "GitCommandError"]
    ELSE [s EXCEPT !.heads[name] = Absent]

\* ------------------------------------------------------------------------
\* GitPython (the adapter)
\* ------------------------------------------------------------------------

_open_git(s) == [s EXCEPT !.git = TRUE]

git(s) == IF ~s.git THEN _open_git(s) ELSE s

\* Mutant: the detached case records None instead of the empty string.
_discover_main_branch_none_on_detached(s) ==
    IF s.head # Detached
    THEN [s EXCEPT !.conf = s.head, !.writes = @ + 1]
    ELSE [s EXCEPT !.conf = None, !.writes = @ + 1]

\* repo.active_branch raises TypeError on a detached HEAD, which is what
\* selects the empty string.
_discover_main_branch(s) ==
    IF s.head # Detached
    THEN [s EXCEPT !.conf = s.head, !.writes = @ + 1]
    ELSE [s EXCEPT !.conf = "", !.writes = @ + 1]

\* Mutant: discovery runs even when main_branch is already configured.
_open_repository_always_discovers(s) ==
    _discover_main_branch([s EXCEPT !.repo = TRUE, !.config = TRUE])

_open_repository(s) ==
    LET s1 == [s EXCEPT !.repo = TRUE, !.config = TRUE]
    IN  IF s1.conf = None THEN _discover_main_branch(s1) ELSE s1

repo(s) == IF ~s.repo THEN _open_repository(s) ELSE s

get_head(s) == repo(s)

clear(s) == s

_delete_tmp_branch(s) ==
    LET s0 == [repo(s) EXCEPT !.delReached = TRUE,
                              !.delPdBefore = (s.heads[PD] # Absent)]
        \* the body of the try block; err is set where it stops
        onPD == git(s0)
        s1 == IF s0.head = PD
              THEN [GitCheckoutForce(onPD, onPD.conf)
                        EXCEPT !.mainArgs = Append(@, onPD.conf)]
              ELSE s0
        s2 == IF s1.err = "ok" THEN DeleteHead(s1, PD) ELSE s1
        \* except GitCommandError: logged, not raised
        s3 == [s2 EXCEPT !.err = "ok"]
    IN  IF s0.head = Detached
        THEN [s0 EXCEPT !.err = "TypeError", !.delErr = "TypeError"]
        ELSE [s3 EXCEPT !.delChanged = (s3.head # s0.head \/ s3.heads # s0.heads)]

checkout(s, _hash) ==
    LET s1 == _delete_tmp_branch(s)
        s2 == git(s1)
    IN  IF s1.err # "ok" THEN s1
        ELSE [GitCheckoutNewBranch(s2, _hash, PD)
                  EXCEPT !.createReached = TRUE,
                         !.createPdExists = (s2.heads[PD] # Absent)]

\* Mutant: reset() forgets to remove the scratch branch.
reset_keeps_scratch(s) ==
    LET s0 == git(s)
    IN  [GitCheckoutForce(s0, s0.conf) EXCEPT !.mainArgs = Append(@, s0.conf)]

reset(s) ==
    LET s0 == git(s)
        s1 == [GitCheckoutForce(s0, s0.conf) EXCEPT !.mainArgs = Append(@, s0.conf)]
    IN  IF s1.err # "ok" THEN s1 ELSE _delete_tmp_branch(s1)

\* --- file history -------------------------------------------------------

\* The modelled history: c1 creates f.txt, c2 changes f.txt and adds g.txt;
\* untracked.txt lies in the working tree and was never committed.
Parent == [c \in Commits |-> IF c = "c2" THEN "c1" ELSE None]
Touched == [p \in {"f.txt", "g.txt"} |-> IF p = "f.txt" THEN {"c1", "c2"} ELSE {"c2"}]
HexSha == [c \in Commits |-> IF c = "c1" THEN <<"a", "1">> ELSE <<"b", "2">>]

\* str(Path(filepath)): pathlib drops a leading "./"
PathStr(filepath) == IF filepath = "./f.txt" THEN "f.txt" ELSE filepath

RECURSIVE LogFrom(_, _)
LogFrom(c, path) ==
    IF c = None THEN << >>
    ELSE (IF c \in Touched[path] THEN <<c>> ELSE << >>) \o LogFrom(Parent[c], path)

RECURSIVE Lines(_)
Lines(cs) == IF cs = << >> THEN << >> ELSE HexSha[Head(cs)] \o <<NL>> \o Lines(Tail(cs))

\* What self.git.log("--follow", "--format=%H", path) gives: git fails on a
\* path that is neither in the working tree nor a revision; otherwise it
\* prints one hash per line, newest first, and GitPython strips the final
\* newline of the output.
GitLog(s, path) ==
    LET tracked == path \in DOMAIN Touched /\ LogFrom(s.headCommit, path) # << >>
        raw == IF tracked THEN Lines(LogFrom(s.headCommit, path)) ELSE << >>
        out == IF raw # << >> /\ raw[Len(raw)] = NL
               THEN SubSeq(raw, 1, Len(raw) - 1) ELSE raw
    IN  IF tracked \/ path = "untracked.txt"
        THEN [err |-> "ok", out |-> out]
        ELSE [err |-> "GitCommandError", out |-> << >>]

\* Python's str.split(sep) for a one-character separator
RECURSIVE split(_, _)
split(str, sep) ==
    IF \A i \in 1..Len(str) : str[i] # sep
    THEN <<str>>
    ELSE LET i == CHOOSE k \in 1..Len(str) :
                      str[k] = sep /\ \A j \in 1..(k - 1) : str[j] # sep
         IN  <<SubSeq(str, 1, i - 1)>> \o split(SubSeq(str, i + 1, Len(str)), sep)

get_commits_modified_file(s, filepath) ==
    LET path == PathStr(filepath)
        s1 == git(s)
        r == GitLog(s1, path)
    IN  IF r.err = "ok"
        THEN [s1 EXCEPT !.ret = split(r.out, NL)]
        ELSE [s1 EXCEPT !.ret = << >>]     \* logged at debug level

\* ------------------------------------------------------------------------
\* The state machine: one action per public operation of an adapter
\* ------------------------------------------------------------------------

NoCall == [op |-> "", ad |-> 0, arg |-> "", err |-> "ok", head |-> "", conf |-> ""]

Snapshot(a) ==
    [head |-> head, heads |-> heads, headCommit |-> headCommit, dirty |-> dirty,
     config |-> config, repo |-> _repo[a], conf |-> _conf[a]]

\* Store what the call left behind and record the call.
Return(a, op, arg, s) ==
    /\ head' = s.head
    /\ heads' = s.heads
    /\ headCommit' = s.headCommit
    /\ dirty' = s.dirty
    /\ config' = s.config
    /\ _git' = [_git EXCEPT ![a] = s.git]
    /\ _repo' = [_repo EXCEPT ![a] = s.repo]
    /\ _conf' = [_conf EXCEPT ![a] = s.conf]
    /\ writes' = [writes EXCEPT ![a] = s.writes]
    /\ last' = [op |-> op, ad |-> a, arg |-> arg, err |-> s.err, pre |-> Snapshot(a),
                mainArgs |-> s.mainArgs, delReached |-> s.delReached,
                delPdBefore |-> s.delPdBefore, delErr |-> s.delErr,
                delChanged |-> s.delChanged, createReached |-> s.createReached,
                createPdExists |-> s.createPdExists, ret |-> s.ret]
    /\ prev' = IF last.op \in {"checkout", "reset"}
               THEN [op |-> last.op, ad |-> last.ad, arg |-> last.arg, err |-> last.err,
                     head |-> last.pre.head, conf |-> last.pre.conf]
               ELSE NoCall

Init ==
    /\ head \in UserBranches \cup {Detached}
    /\ heads = [b \in Branches |-> IF b = "main" THEN "c2"
                                   ELSE IF b = "dev" THEN "c1" ELSE Absent]
    /\ headCommit \in Commits
    /\ head # Detached => headCommit = heads[head]
    /\ dirty \in BOOLEAN
    /\ config = FALSE
    /\ _git = [a \in Adapters |-> FALSE]
    /\ _repo = [a \in Adapters |-> FALSE]
    /\ _conf \in [Adapters -> {None, "main"}]
    /\ writes = [a \in Adapters |-> 0]
    /\ last = [op |-> "__init__", ad |-> 0, arg |-> "", err |-> "ok",
               pre |-> [head |-> head, heads |-> heads, headCommit |-> headCommit,
                        dirty |-> dirty, config |-> config,
                        repo |-> FALSE, conf |-> None],
               mainArgs |-> << >>, delReached |-> FALSE, delPdBefore |-> FALSE,
               delErr |-> "ok", delChanged |-> FALSE, createReached |-> FALSE,
               createPdExists |-> FALSE, ret |-> << >>]
    /\ prev = NoCall

GetHead(a) ==
    LET s == get_head(Ctx(a))
    IN  /\ a \in Adapters
        /\ Return(a, "get_head", "", s)

Checkout(a, h) ==
    LET s == checkout(Ctx(a), h)
    IN  /\ a \in Adapters
        /\ Return(a, "checkout", h, s)

Reset(a) ==
    LET s == reset(Ctx(a))
    IN  /\ a \in Adapters
        /\ Return(a, "reset", "", s)

GetCommitsModifiedFile(a, p) ==
    LET s == get_commits_modified_file(Ctx(a), p)
    IN  /\ a \in Adapters
        /\ Return(a, "get_commits_modified_file", p, s)

Clear(a) ==
    LET s == clear(Ctx(a))
    IN  /\ a \in Adapters
        /\ Return(a, "clear", "", s)

Next ==
    \/ \E a \in Adapters : GetHead(a)
    \/ \E a \in Adapters, h \in Hashes : Checkout(a, h)
    \/ \E a \in Adapters : Reset(a)
    \/ \E a \in Adapters : Clear(a)

Spec == Init /\ [][Next]_vars

\* File-history queries, at every commit checkout() and reset() can put the
\* working tree on.
NextLog ==
    \/ \E a \in Adapters, h \in Hashes : Checkout(a, h)
    \/ \E a \in Adapters : Reset(a)
    \/ \E a \in Adapters, p \in Paths : GetCommitsModifiedFile(a, p)

SpecLog == Init /\ [][NextLog]_vars

\* ------------------------------------------------------------------------
\* Properties
\* ------------------------------------------------------------------------

\* what branch discovery records for a given HEAD
Discovered(h) == IF h = Detached THEN "" ELSE h

\* last is reset() called right after a checkout(h) of the same adapter that
\* started on a user branch with a resolvable h
AfterCheckoutThenReset ==
    /\ last.op = "reset" /\ prev.op = "checkout" /\ prev.ad = last.ad
    /\ prev.arg \in Commits /\ prev.head \in UserBranches

\* C1 (as claimed): checkout(h) followed by reset() leaves HEAD attached to
\* the branch B it was on before the checkout, whatever B is, and no scratch
\* branch _PD exists afterwards.
C1_RoundTripAnyBranch ==
    AfterCheckoutThenReset => head = prev.head /\ heads[PD] = Absent

\* C1 (amended): when HEAD is on a user branch B and the adapter's
\* main_branch is B (preset, or still unset so that opening the repo handle
\* discovers B), checkout(h) followed by reset() both return, leave HEAD
\* attached to B with B's commit checked out, and no _PD exists afterwards.
C1_RoundTripOnMainBranch ==
    AfterCheckoutThenReset /\ prev.conf \in {prev.head, None}
        => /\ prev.err = "ok" /\ last.err = "ok"
           /\ head = prev.head /\ headCommit = heads[head]
           /\ heads[PD] = Absent
           /\ _conf[last.ad] = prev.head

C1_Witness ==
    /\ AfterCheckoutThenReset /\ prev.conf = None /\ prev.head = "dev"
    /\ last.pre.head = PD /\ last.pre.heads[PD] = "c2" /\ head = "dev"

\* C2: after reset() returns, HEAD is on the main branch and no _PD exists;
\* a second reset() right after it returns too and leaves the same state.
C2_ResetPostAndIdempotent ==
    /\ last.op = "reset" /\ last.err = "ok"
           => head = _conf[last.ad] /\ heads[PD] = Absent
    /\ last.op = "reset" /\ prev.op = "reset" /\ prev.ad = last.ad /\ prev.err = "ok"
           => last.err = "ok" /\ head = last.pre.head /\ heads = last.pre.heads

\* C3: whenever checkout() issues 'git checkout -f <hash> -b _PD', no branch
\* _PD exists at that moment.
C3_ScratchDeletedBeforeCreate ==
    last.createReached => ~last.createPdExists

\* C4: checkout(h) with a resolvable h, started with HEAD on the main branch
\* or on the scratch branch, ends with HEAD attached to a new _PD pointing at h.
C4_CheckoutPost ==
    (last.op = "checkout" /\ last.arg \in Commits
                          /\ last.pre.head \in {PD, _conf[last.ad]})
        => /\ last.err = "ok"
           /\ head = PD /\ heads[PD] = last.arg /\ headCommit = last.arg

\* C5: opening the repo handle with no main_branch configured records the
\* checked-out branch, or "" on a detached HEAD; a configured main_branch is
\* left alone; nothing but that first opening writes main_branch, so it is
\* written at most once per adapter.
C5_BranchDiscovery ==
    /\ \A a \in Adapters : writes[a] <= 1
    /\ \A a \in Adapters : _repo[a] => _conf[a] # None
    /\ last.ad \in Adapters =>
         IF ~last.pre.repo /\ _repo[last.ad] /\ last.pre.conf = None
         THEN _conf[last.ad] = Discovered(last.pre.head) /\ writes[last.ad] = 1
         ELSE _conf[last.ad] = last.pre.conf

C5_Witness ==
    /\ last.ad \in Adapters /\ last.pre.repo /\ last.op = "checkout"
    /\ writes[last.ad] = 1 /\ _conf[last.ad] = ""
    /\ \E b \in Adapters : writes[b] = 0 /\ _repo[b] /\ _conf[b] = "main"

\* C6: get_commits_modified_file never raises, returns [] when the query
\* fails, and otherwise returns only commit hashes, one per output line (so
\* an empty output gives an empty list).
C6_SoftFailFileHistory ==
    last.op = "get_commits_modified_file"
        => /\ last.err = "ok"
           /\ \A i \in 1..Len(last.ret) : \E c \in Commits : last.ret[i] = HexSha[c]
           /\ GitLog(last.pre, PathStr(last.arg)).err # "ok" => last.ret = << >>

\* C7 (as claimed): get_head() changes nothing: HEAD, branches, working
\* tree, config store and Configuration are as before the call.
C7_GetHeadNoSideEffects ==
    last.op = "get_head"
        => /\ head = last.pre.head /\ heads = last.pre.heads
           /\ headCommit = last.pre.headCommit /\ dirty = last.pre.dirty
           /\ config = last.pre.config
           /\ _conf[last.ad] = last.pre.conf

\* C7 (amended): get_head() never changes HEAD, the branches or the working
\* tree.  With the repo handle already open it changes nothing else either;
\* on an adapter whose repo handle is not open yet it opens it, which sets
\* the blame option in the config store and, if main_branch is unset,
\* records the discovered branch.
C7_GetHeadOnlyOpens ==
    last.op = "get_head"
        => /\ head = last.pre.head /\ heads = last.pre.heads
           /\ headCommit = last.pre.headCommit /\ dirty = last.pre.dirty
           /\ last.err = "ok" /\ _repo[last.ad]
           /\ last.pre.repo => config = last.pre.config /\ _conf[last.ad] = last.pre.conf
           /\ ~last.pre.repo =>
                /\ config
                /\ _conf[last.ad] = IF last.pre.conf = None
                                    THEN Discovered(last.pre.head) ELSE last.pre.conf

C7_Witness ==
    /\ last.op = "get_head" /\ ~last.pre.repo /\ last.pre.conf = None
    /\ last.pre.head = Detached /\ last.pre.config /\ _conf[last.ad] = ""

\* C8: when checkout(h), h resolvable, or reset() runs while no _PD exists,
\* the deletion step raises nothing and changes neither HEAD nor a branch,
\* whether HEAD is on a branch or detached.
C8_AbsentScratchNotSurfaced ==
    ((last.op = "reset" \/ (last.op = "checkout" /\ last.arg \in Commits))
         /\ last.delReached /\ ~last.delPdBefore)
        => last.delErr = "ok" /\ ~last.delChanged

\* C9: no adapter's main_branch is ever the scratch branch name _PD.
C9_MainBranchNeverScratch ==
    \A a \in Adapters : _conf[a] # PD

\* C10: every force-checkout of the main branch, in reset() and in
\* _delete_tmp_branch(), is given a main_branch that is already set.
C10_DiscoveryPrecedesUse ==
    \A i \in 1..Len(last.mainArgs) : last.mainArgs[i] # None

====
